---- MODULE Spec2Model ----
(***************************************************************************)
(* A model of pyechonest's artist module (src/src/artist.py): the Artist   *)
(* object with its per-instance attribute cache and lazy accessors, and    *)
(* the module-level query functions search, top_hottt and similar.         *)
(*                                                                         *)
(* Python values are tagged records, so that values of different Python    *)
(* types can be stored in one mapping and compared:                        *)
(*   None -> [t |-> "none"]      a number -> Num(n)    a string -> Str(s)  *)
(*   a list -> List(<<...>>)     a dict   -> Dict(f), f a function on keys *)
(* Booleans that are only ever tested (cache, limit, exact, sounds_like)   *)
(* are TLA+ booleans.  A dict's mapping is a TLA+ function whose domain is *)
(* the set of its keys, so "k in d" is k \in DOMAIN d.                     *)
(***************************************************************************)
EXTENDS Integers, Sequences, FiniteSets, TLC

VARIABLES
    cache,     \* self.cache of the Artist under test: key -> raw value
    gwCalls,   \* number of remote calls the gateway has received so far
    observing, \* whether the caller keeps the record below
    okCached,  \* <<op, key>> of the accessor calls with cache=True that returned
    last,      \* the most recent call: what was passed, sent and returned
    heap       \* the dict objects behind cache['similar'] and the Artists
               \* get_similar has returned, by identity

vars == <<cache, gwCalls, observing, okCached, last, heap>>

(***************************************************************************)
(* Bounds of the model.                                                    *)
(***************************************************************************)
\* Remote calls the gateway answers (successfully or not) in one run.
MaxCalls == 2
\* Arguments a caller of a query function sets to a non-default value.
MaxSupplied == 2
\* Length of a list the gateway returns.
MaxItems == 2
\* Artists get_similar returns in one run, over all its calls.
MaxKids == 4

(***************************************************************************)
(* Python values.                                                          *)
(***************************************************************************)
None == [t |-> "none"]
Num(n) == [t |-> "num", v |-> n]
Str(s) == [t |-> "str", v |-> s]
List(s) == [t |-> "list", v |-> s]
Dict(f) == [t |-> "dict", v |-> f]

\* Variant: "if v is not None" in place of "if v".
TruthyNotNone(v) == v.t # "none"

\* Python truth value of v, as tested by "if v:" and "v or []".
Truthy(v) ==
    CASE v.t = "none" -> FALSE
      [] v.t = "num"  -> v.v # 0
      [] v.t = "str"  -> v.v # ""
      [] v.t = "list" -> v.v # <<>>
      [] v.t = "dict" -> DOMAIN v.v # {}

\* The empty dict, and d[k] = v on a dict's mapping.
EmptyMap == [k \in {} |-> None]
\* Variant: the assignment replaces the whole mapping.
PutOnly(d, k, v) == [x \in {k} |-> v]
Put(d, k, v) == [x \in DOMAIN d \cup {k} |-> IF x = k THEN v ELSE d[x]]
\* d.get(k): None when the key is absent.
Get(d, k) == IF k \in DOMAIN d THEN d[k] ELSE None

\* Sequences over S of length at most n.
SeqsUpTo(S, n) == UNION {[1..m -> S] : m \in 0..n}

(***************************************************************************)
(* The remote call gateway.  proxies.get_attribute and util.callm are not  *)
(* part of the source at hand; they are modelled from the specification:   *)
(* a call carries a resource path and a parameter mapping, and either      *)
(* fails or returns a decoded response.                                    *)
(***************************************************************************)
ArtistId == Str("ARH6W4X1187B99274F")

\* self.get_attribute(method, **kwargs): the request sent for this Artist.
GetAttribute(method, kwargs) ==
    [path |-> <<"artist", method>>, entity |-> ArtistId, params |-> kwargs]

\* util.callm("%s/%s" % ('artist', fn), kwargs): the request sent.
CallM(fn, kwargs) ==
    [path |-> <<"artist", fn>>, entity |-> None, params |-> kwargs]

NoRequest == [path |-> <<>>, entity |-> None, params |-> EmptyMap]
NoResult == [t |-> "noresult"]
NoResponse == EmptyMap

\* Raw items the gateway returns.
RawDocs == {Dict("url" :> Str("u1")), Dict("url" :> Str("u2"))}
RawArtists ==
    { Dict("id" :> Str("AR1") @@ "name" :> Str("n1")),
      Dict("id" :> Str("AR2") @@ "name" :> Str("n2") @@ "familiarity" :> Num(1)) }
RawUrls == {Dict("official_url" :> Str("u1")), Dict("official_url" :> Str("u2"))}
ScalarVals == {Num(1), Num(2)}
ForeignIds == {Str("fid:1")}

\* Lists of distinct items of S, at most n long.
Distinct(s) == \A i, j \in DOMAIN s : i # j => s[i] # s[j]
ListsOf(S, n) == {List(s) : s \in {x \in SeqsUpTo(S, n) : Distinct(x)}}

\* Decoded responses of a successful call, by method.
ArtistResponses(attr) == {"artist" :> (attr :> v) : v \in ScalarVals}
DocResponses(attr) == {attr :> l : l \in ListsOf(RawDocs, MaxItems)}
SimilarResponses == {"artists" :> l : l \in ListsOf(RawArtists, MaxItems)}
UrlsResponses == {"urls" :> u : u \in RawUrls}
ProfileResponses(idspace) ==
    {"artist" :> ("id" :> ArtistId)}
    \cup {"artist" :> ("id" :> ArtistId @@ idspace :> f) : f \in ForeignIds}
QueryResponses ==
    {"response" :> ("artists" :> l) : l \in ListsOf(RawArtists, MaxItems)}

(***************************************************************************)
(* Caller-facing objects.  results.Result and proxies.ArtistProxy are not  *)
(* part of the source at hand; they are modelled from the specification.   *)
(***************************************************************************)
Returned(v) == [raised |-> "none", result |-> v]
Raised(e) == [raised |-> e, result |-> NoResult]

\* Result(kind, raw): a kind label paired with the raw value of one item.
Result(kind, a) == [type |-> kind, fields |-> a]

\* What the constructor of Result does with a raw value that is no field
\* mapping is not fixed by the specification.  The two classes that fit it:
\* one pairs the label with whatever it is given; the other copies the
\* fields out of the raw value, as dict.update does, and refuses a value it
\* cannot read fields from.
ResultClasses == {"pairing", "refusing"}
ResultWith(class, kind, a) ==
    CASE class = "pairing" \/ a.t = "dict" -> Returned(Result(kind, a))
      [] a.t \in {"none", "num"}           -> Raised("TypeError")
      [] a.t \in {"str", "list"} /\ Len(a.v) = 0 -> Returned(Result(kind, a))
      [] OTHER                             -> Raised("ValueError")

\* A key holding a character outside ASCII is written here by a name of
\* this set (the strings of the model are ASCII).
NonAsciiKeys == {"cafe_acute"}

\* fix = lambda x: dict((str(k), v) for (k, v) in x.iteritems())
\* x is the field mapping of a raw dict; str(k) raises UnicodeEncodeError on
\* a unicode key with a character outside ASCII.
Fix(x) ==
    IF DOMAIN x \cap NonAsciiKeys # {}
    THEN Raised("UnicodeEncodeError")
    ELSE Returned([k \in DOMAIN x |-> x[k]])

\* Artist(**kw): id and name become fields, the other raw fields the cache.
NewArtist(kw) ==
    [type  |-> "artist",
     id    |-> Get(kw, "id"),
     name  |-> Get(kw, "name"),
     cache |-> [k \in DOMAIN kw \ {"id", "name"} |-> kw[k]]]

\* Artist(**fix(a)) for one item a of the iteration: a value that is no
\* dict has no iteritems (AttributeError); def __init__(self, id, **kwargs)
\* requires id, and a field named self is a second value for the parameter
\* self (TypeError in both cases).
ArtistFrom(a) ==
    IF a.t # "dict"
    THEN Raised("AttributeError")
    ELSE LET kw == Fix(a.v)
         IN IF kw.raised # "none" THEN kw
            ELSE IF "id" \notin DOMAIN kw.result \/ "self" \in DOMAIN kw.result
                 THEN Raised("TypeError")
            ELSE Returned(NewArtist(kw.result))

\* "for a in v": None and numbers are not iterable (TypeError).  A list
\* gives its items, a string its characters, a dict its keys in an order
\* of the interpreter's choosing.
Iterable(v) == v.t \notin {"none", "num"}
Orders(S) ==
    {s \in [1..Cardinality(S) -> S] : \A a, b \in DOMAIN s : a # b => s[a] # s[b]}
Items(v) ==
    CASE v.t = "list" -> {v.v}
      [] v.t = "str"  -> {[i \in 1..Len(v.v) |-> Str(SubSeq(v.v, i, i))]}
      [] v.t = "dict" -> {[i \in DOMAIN s |-> Str(s[i])] : s \in Orders(DOMAIN v.v)}

\* A list comprehension over per-item outcomes: the first item that raises
\* ends it with that exception; otherwise the list of the results.
Collect(outs) ==
    LET bad == {i \in DOMAIN outs : outs[i].raised # "none"}
    IN IF bad = {}
       THEN Returned(List([i \in DOMAIN outs |-> outs[i].result]))
       ELSE outs[CHOOSE i \in bad : \A k \in bad : i <= k]

\* Each adaptation below gives the set of outcomes the return statement can
\* have: one outcome, unless it depends on the class of Result or on the
\* order of a dict's keys.

\* return self.cache[key]
AdaptRaw(v) == Returned(v)

\* return [Result(kind, a) for a in self.cache[key]]
AdaptResults(kind, v) ==
    IF ~Iterable(v)
    THEN {Raised("TypeError")}
    ELSE {Collect([i \in DOMAIN s |-> ResultWith(c, kind, s[i])]) :
            s \in Items(v), c \in ResultClasses}

\* Variant: the Artists are returned in reverse order.
AdaptArtistsReversed(v) ==
    IF ~Iterable(v)
    THEN {Raised("TypeError")}
    ELSE {Collect([i \in DOMAIN s |-> ArtistFrom(s[Len(s) + 1 - i])]) :
            s \in Items(v)}

\* return [Artist(**fix(a)) for a in self.cache['similar']]
AdaptArtists(v) ==
    IF ~Iterable(v)
    THEN {Raised("TypeError")}
    ELSE {Collect([i \in DOMAIN s |-> ArtistFrom(s[i])]) : s \in Items(v)}

\* return Result('urls', self.cache['urls'])
AdaptUrls(v) == {ResultWith(c, "urls", v) : c \in ResultClasses}

\* How each accessor turns the cached raw value into what it returns.
Adapt(how, kind, v) ==
    CASE how = "raw"     -> {AdaptRaw(v)}
      [] how = "results" -> AdaptResults(kind, v)
      [] how = "artists" -> AdaptArtists(v)
      [] how = "urls"    -> AdaptUrls(v)

(***************************************************************************)
(* The lazy accessor, as every get_* method of Artist is written:          *)
(*     if not (cache and (key in self.cache)):                             *)
(*         response = self.get_attribute(method, **kwargs)                 *)
(*         self.cache[key] = <extracted from response>                     *)
(*     return <self.cache[key], adapted>                                   *)
(* fetched is the set of values the extraction yields over the responses   *)
(* the gateway can give.  A failing gateway call raises before the         *)
(* assignment.                                                             *)
(***************************************************************************)
\* Variants of the hit test: one that ignores the cache flag, one that takes
\* a cached None for a miss.
CacheHitIgnoresFlag(useCache, key) == key \in DOMAIN cache
CacheHitTruthy(useCache, key) ==
    useCache /\ key \in DOMAIN cache /\ cache[key] # None

CacheHit(useCache, key) == useCache /\ key \in DOMAIN cache

\* Variant of the failure path: None is stored when the fetch fails.
CacheOnFailureMarks(key) == Put(cache, key, None)

\* self.cache when the gateway call has raised: the assignment is not reached.
\* Variant: a failed call empties the cache.
CacheOnFailureClears(key) == EmptyMap
CacheOnFailure(key) == cache

\* Variant: the remote call is made twice.
CountCallTwice(n) == n + 2

\* The gateway's call count after the one remote call of a miss.
CountCall(n) == n + 1

\* The record of one call: what was passed (args, cache), whether the key was
\* in self.cache when the call began (found), what the gateway was sent and
\* answered, and what the caller got.
Call(op, key, args, useCache, gw, req, resp, out) ==
    [op |-> op, key |-> key, args |-> args, cache |-> useCache,
     found |-> key \in DOMAIN cache,
     gw |-> gw, request |-> req, response |-> resp,
     raised |-> out.raised, result |-> out.result]

\* What the caller has observed so far of calls made with cache=True.
LogOk(op, key, useCache, out) ==
    IF observing /\ useCache /\ out.raised = "none"
    THEN okCached \cup {<<op, key>>}
    ELSE okCached

\* fetched pairs each response the gateway can give with the value the
\* accessor extracts from it.
Accessor(op, key, args, useCache, method, kwargs, fetched, how, kind) ==
    IF CacheHit(useCache, key)
    THEN \E out \in Adapt(how, kind, cache[key]) :
            /\ UNCHANGED <<cache, gwCalls>>
            /\ okCached' = LogOk(op, key, useCache, out)
            /\ last' = Call(op, key, args, useCache, "none", NoRequest,
                            NoResponse, out)
    ELSE /\ gwCalls < MaxCalls
         /\ gwCalls' = CountCall(gwCalls)
         /\ \/ /\ cache' = CacheOnFailure(key)
               /\ UNCHANGED okCached
               /\ last' = Call(op, key, args, useCache, "fail",
                               GetAttribute(method, kwargs), NoResponse,
                               Raised("gateway"))
            \/ \E f \in fetched :
                 LET stored == Put(cache, key, f.value)
                 IN \E out \in Adapt(how, kind, stored[key]) :
                      /\ cache' = stored
                      /\ okCached' = LogOk(op, key, useCache, out)
                      /\ last' = Call(op, key, args, useCache, "ok",
                                      GetAttribute(method, kwargs), f.response, out)

(***************************************************************************)
(* Arguments of the accessors.                                             *)
(***************************************************************************)
NoArgs == EmptyMap
NoKwargs == EmptyMap
ResultsVals == {Num(15), Num(5)}
StartVals == {Num(0), Num(2)}
\* get_audio(results=15, start=0, cache=True), and the same call with every
\* argument given another value.
PageDefaults == [results |-> Num(15), start |-> Num(0)]
PageArgs == {PageDefaults, [results |-> Num(5), start |-> Num(2)]}
\* get_biographies(results=15, start=0, license='unknown', cache=True)
LicensedDefaults == [results |-> Num(15), start |-> Num(0), license |-> Str("unknown")]
LicensedArgs ==
    {LicensedDefaults,
     [results |-> Num(5), start |-> Num(2), license |-> Str("cc-by-sa")]}

\* get_attribute(..., results=results, start=start)
PageKwargs(args) == ("results" :> args.results) @@ ("start" :> args.start)
\* get_biographies and get_images accept license and send results and start.
LicensedKwargs(args) == ("results" :> args.results) @@ ("start" :> args.start)

(***************************************************************************)
(* The accessors of Artist.                                                *)
(***************************************************************************)
GetHotttnesss ==
    \E useCache \in BOOLEAN :
        /\ Accessor("get_hotttnesss", "hotttnesss", NoArgs, useCache,
                    "hotttnesss", NoKwargs,
                    {[response |-> r, value |-> r["artist"]["hotttnesss"]] :
                        r \in ArtistResponses("hotttnesss")},
                    "raw", "")
        /\ UNCHANGED <<observing, heap>>

GetAudio ==
    \E args \in PageArgs, useCache \in BOOLEAN :
        /\ Accessor("get_audio", "audio", args, useCache,
                    "audio", PageKwargs(args),
                    {[response |-> r, value |-> r["audio"]] :
                        r \in DocResponses("audio")},
                    "results", "audio")
        /\ UNCHANGED <<observing, heap>>

GetBiographies ==
    \E args \in LicensedArgs, useCache \in BOOLEAN :
        /\ Accessor("get_biographies", "biographies", args, useCache,
                    "biographies", LicensedKwargs(args),
                    {[response |-> r, value |-> r["biographies"]] :
                        r \in DocResponses("biographies")},
                    "results", "biography")
        /\ UNCHANGED <<observing, heap>>

GetBlogs ==
    \E args \in PageArgs, useCache \in BOOLEAN :
        /\ Accessor("get_blogs", "blogs", args, useCache,
                    "blogs", PageKwargs(args),
                    {[response |-> r, value |-> r["blogs"]] :
                        r \in DocResponses("blogs")},
                    "results", "blogs")
        /\ UNCHANGED <<observing, heap>>

\* Variant: familiarity kept under the key of hotttnesss.
GetFamiliaritySharedKey ==
    \E useCache \in BOOLEAN :
        /\ Accessor("get_familiarity", "hotttnesss", NoArgs, useCache,
                    "familiarity", NoKwargs,
                    {[response |-> r, value |-> r["artist"]["familiarity"]] :
                        r \in ArtistResponses("familiarity")},
                    "raw", "")
        /\ UNCHANGED <<observing, heap>>

GetFamiliarity ==
    \E useCache \in BOOLEAN :
        /\ Accessor("get_familiarity", "familiarity", NoArgs, useCache,
                    "familiarity", NoKwargs,
                    {[response |-> r, value |-> r["artist"]["familiarity"]] :
                        r \in ArtistResponses("familiarity")},
                    "raw", "")
        /\ UNCHANGED <<observing, heap>>

GetImages ==
    \E args \in LicensedArgs, useCache \in BOOLEAN :
        /\ Accessor("get_images", "images", args, useCache,
                    "images", LicensedKwargs(args),
                    {[response |-> r, value |-> r["images"]] :
                        r \in DocResponses("images")},
                    "results", "image")
        /\ UNCHANGED <<observing, heap>>

GetNews ==
    \E args \in PageArgs, useCache \in BOOLEAN :
        /\ Accessor("get_news", "news", args, useCache,
                    "news", PageKwargs(args),
                    {[response |-> r, value |-> r["news"]] :
                        r \in DocResponses("news")},
                    "results", "news")
        /\ UNCHANGED <<observing, heap>>

GetReviews ==
    \E args \in PageArgs, useCache \in BOOLEAN :
        /\ Accessor("get_reviews", "reviews", args, useCache,
                    "reviews", PageKwargs(args),
                    {[response |-> r, value |-> r["reviews"]] :
                        r \in DocResponses("reviews")},
                    "results", "review")
        /\ UNCHANGED <<observing, heap>>

GetUrls ==
    \E useCache \in BOOLEAN :
        /\ Accessor("get_urls", "urls", NoArgs, useCache,
                    "urls", NoKwargs,
                    {[response |-> r, value |-> r["urls"]] : r \in UrlsResponses},
                    "urls", "urls")
        /\ UNCHANGED <<observing, heap>>

GetVideo ==
    \E args \in PageArgs, useCache \in BOOLEAN :
        /\ Accessor("get_video", "video", args, useCache,
                    "video", PageKwargs(args),
                    {[response |-> r, value |-> r["video"]] :
                        r \in DocResponses("video")},
                    "results", "video")
        /\ UNCHANGED <<observing, heap>>

\* The id spaces a caller asks for: catalogue names, and names that are also
\* attribute names of the Artist (idspace is an arbitrary string).
IdSpaces == {"musicbrainz", "audio", "hotttnesss"}

\* bucket=['id:'+idspace]
IdBucket(idspace) == List(<<[t |-> "concat", v |-> <<"id:", idspace>>]>>)

GetForeignId ==
    \E idspace \in IdSpaces, useCache \in BOOLEAN :
        /\ Accessor("get_foreign_id", idspace, [idspace |-> idspace], useCache,
                    "profile", "bucket" :> IdBucket(idspace),
                    {[response |-> r, value |-> Get(r["artist"], idspace)] :
                        r \in ProfileResponses(idspace)},
                    "raw", "")
        /\ UNCHANGED <<observing, heap>>

(***************************************************************************)
(* Request building of get_similar and of the query functions.  Each       *)
(* "if x: kwargs[k] = v" of the source is one AddIf.                       *)
(***************************************************************************)
\* Variant: the key is stored whatever the test says.
AddIfAlways(kw, cond, k, v) == Put(kw, k, v)

AddIf(kw, cond, k, v) == IF cond THEN Put(kw, k, v) ELSE kw

\* buckets = buckets or []
OrEmpty(buckets) == IF Truthy(buckets) THEN buckets ELSE List(<<>>)

\* Variant: the flag is sent as str(True).
FlagValuePython == Str("True")

\* The boolean flags are sent as the string 'true'.
FlagValue == Str("true")

\* isinstance(x, list)
IsList(x) == x.t = "list"

\* Variant: no normalisation.
AsListGiven(x) == x

\* if not isinstance(x, list): x = [x]
AsList(x) == IF IsList(x) THEN x ELSE List(<<x>>)

FilterVals == {None, Num(0), Num(1)}
BucketVals == {None, List(<<>>), List(<<Str("id:musicbrainz")>>)}
QueryResultsVals == {Num(15), Num(5), Num(0)}
NameVals == {None, Str(""), Str("the national")}
DescriptionVals == {None, Str("indie")}
SortVals == {None, Str("hotttnesss-desc")}
IdsVals ==
    {None, Str("AR1"), List(<<Str("AR1")>>), List(<<Str("AR1"), Str("AR2")>>),
     List(<<Str("AR2"), Str("AR1")>>)}
NamesVals == {None, Str("n1"), List(<<Str("n1")>>), List(<<Str("n1"), Str("n2")>>)}

\* Number of arguments of a that differ from the defaults d.
Supplied(a, d) == Cardinality({f \in DOMAIN a : a[f] # d[f]})

\* get_similar(results=15, start=0, cache=True, max_familiarity=None, ...)
GetSimilarDefaults ==
    [results |-> Num(15), start |-> Num(0),
     max_familiarity |-> None, min_familiarity |-> None,
     max_hotttnesss |-> None, min_hotttnesss |-> None,
     buckets |-> None, limit |-> FALSE]

GetSimilarArgs ==
    {a \in [results : ResultsVals, start : StartVals,
            max_familiarity : FilterVals, min_familiarity : FilterVals,
            max_hotttnesss : FilterVals, min_hotttnesss : FilterVals,
            buckets : BucketVals, limit : BOOLEAN] :
        Supplied(a, GetSimilarDefaults) <= MaxSupplied}

GetSimilarKwargs(a) ==
    LET buckets == OrEmpty(a.buckets)
        k0 == EmptyMap
        k1 == AddIf(k0, Truthy(a.max_familiarity), "max_familiarity", a.max_familiarity)
        k2 == AddIf(k1, Truthy(a.min_familiarity), "min_familiarity", a.min_familiarity)
        k3 == AddIf(k2, Truthy(a.max_hotttnesss), "max_hotttnesss", a.max_hotttnesss)
        k4 == AddIf(k3, Truthy(a.min_hotttnesss), "min_hotttnesss", a.min_hotttnesss)
        k5 == AddIf(k4, Truthy(buckets), "bucket", buckets)
        k6 == AddIf(k5, a.limit, "limit", FlagValue)
    IN  \* get_attribute('similar', results=results, start=start, **kwargs)
        Put(Put(k6, "results", a.results), "start", a.start)

\* search(name=None, description=None, results=15, buckets=None, ...)
SearchDefaults ==
    [name |-> None, description |-> None, results |-> Num(15), buckets |-> None,
     limit |-> FALSE, exact |-> FALSE, sounds_like |-> FALSE, sort |-> None,
     max_familiarity |-> None, min_familiarity |-> None,
     max_hotttnesss |-> None, min_hotttnesss |-> None]

SearchArgs ==
    {a \in [name : NameVals, description : DescriptionVals,
            results : QueryResultsVals, buckets : BucketVals,
            limit : BOOLEAN, exact : BOOLEAN, sounds_like : BOOLEAN,
            sort : SortVals,
            max_familiarity : FilterVals, min_familiarity : FilterVals,
            max_hotttnesss : FilterVals, min_hotttnesss : FilterVals] :
        Supplied(a, SearchDefaults) <= MaxSupplied}

SearchKwargs(a) ==
    LET buckets == OrEmpty(a.buckets)
        k0  == EmptyMap
        k1  == AddIf(k0, Truthy(a.name), "name", a.name)
        k2  == AddIf(k1, Truthy(a.description), "description", a.description)
        k3  == AddIf(k2, Truthy(a.results), "results", a.results)
        k4  == AddIf(k3, Truthy(buckets), "bucket", buckets)
        k5  == AddIf(k4, a.limit, "limit", FlagValue)
        k6  == AddIf(k5, a.exact, "exact", FlagValue)
        k7  == AddIf(k6, a.sounds_like, "sounds_like", FlagValue)
        k8  == AddIf(k7, Truthy(a.max_familiarity), "max_familiarity", a.max_familiarity)
        k9  == AddIf(k8, Truthy(a.min_familiarity), "min_familiarity", a.min_familiarity)
        k10 == AddIf(k9, Truthy(a.max_hotttnesss), "max_hotttnesss", a.max_hotttnesss)
        k11 == AddIf(k10, Truthy(a.min_hotttnesss), "min_hotttnesss", a.min_hotttnesss)
    IN  AddIf(k11, Truthy(a.sort), "sort", a.sort)

\* top_hottt(start=0, results=15, buckets=None, limit=False)
TopHotttDefaults ==
    [start |-> Num(0), results |-> Num(15), buckets |-> None, limit |-> FALSE]

TopHotttArgs ==
    {a \in [start : StartVals, results : QueryResultsVals,
            buckets : BucketVals, limit : BOOLEAN] :
        Supplied(a, TopHotttDefaults) <= MaxSupplied}

TopHotttKwargs(a) ==
    LET buckets == OrEmpty(a.buckets)
        k0 == EmptyMap
        k1 == AddIf(k0, Truthy(a.start), "start", a.start)
        k2 == AddIf(k1, Truthy(a.results), "results", a.results)
        k3 == AddIf(k2, Truthy(buckets), "bucket", buckets)
    IN  AddIf(k3, a.limit, "limit", FlagValue)

\* similar(names=None, ids=None, start=0, results=15, buckets=None, ...)
SimilarDefaults ==
    [names |-> None, ids |-> None, start |-> Num(0), results |-> Num(15),
     buckets |-> None, limit |-> FALSE,
     max_familiarity |-> None, min_familiarity |-> None,
     max_hotttnesss |-> None, min_hotttnesss |-> None]

SimilarArgs ==
    {a \in [names : NamesVals, ids : IdsVals, start : StartVals,
            results : QueryResultsVals, buckets : BucketVals, limit : BOOLEAN,
            max_familiarity : FilterVals, min_familiarity : FilterVals,
            max_hotttnesss : FilterVals, min_hotttnesss : FilterVals] :
        Supplied(a, SimilarDefaults) <= MaxSupplied}

SimilarKwargs(a) ==
    LET buckets == OrEmpty(a.buckets)
        k0 == EmptyMap
        k1 == AddIf(k0, Truthy(a.ids), "id", AsList(a.ids))
        k2 == AddIf(k1, Truthy(a.names), "name", AsList(a.names))
        k3 == AddIf(k2, Truthy(a.max_familiarity), "max_familiarity", a.max_familiarity)
        k4 == AddIf(k3, Truthy(a.min_familiarity), "min_familiarity", a.min_familiarity)
        k5 == AddIf(k4, Truthy(a.max_hotttnesss), "max_hotttnesss", a.max_hotttnesss)
        k6 == AddIf(k5, Truthy(a.min_hotttnesss), "min_hotttnesss", a.min_hotttnesss)
        k7 == AddIf(k6, Truthy(a.start), "start", a.start)
        k8 == AddIf(k7, Truthy(a.results), "results", a.results)
        k9 == AddIf(k8, Truthy(buckets), "bucket", buckets)
    IN  AddIf(k9, a.limit, "limit", FlagValue)

(***************************************************************************)
(* get_similar and the query functions as operations.  A run against one   *)
(* Artist (Spec) passes one of two argument records per function; a single *)
(* call from the initial state (QuerySpec) ranges over every argument      *)
(* record with at most MaxSupplied non-default arguments.                  *)
(***************************************************************************)
GetSimilarOver(A) ==
    \E args \in A, useCache \in BOOLEAN :
        /\ Accessor("get_similar", "similar", args, useCache,
                    "similar", GetSimilarKwargs(args),
                    {[response |-> r, value |-> r["artists"]] : r \in SimilarResponses},
                    "artists", "")
        /\ UNCHANGED <<observing, heap>>

\* A query function: build kwargs, one util.callm, wrap every raw artist.
Query(op, args, fn, kwargs) ==
    /\ gwCalls < MaxCalls
    /\ gwCalls' = CountCall(gwCalls)
    /\ UNCHANGED <<cache, okCached>>
    /\ \/ last' = Call(op, "", args, FALSE, "fail", CallM(fn, kwargs),
                       NoResponse, Raised("gateway"))
       \/ \E r \in QueryResponses :
            \E out \in AdaptArtists(r["response"]["artists"]) :
                last' = Call(op, "", args, FALSE, "ok", CallM(fn, kwargs), r, out)

SearchOver(A) ==
    \E args \in A :
        /\ Query("search", args, "search", SearchKwargs(args))
        /\ UNCHANGED <<observing, heap>>

TopHotttOver(A) ==
    \E args \in A :
        /\ Query("top_hottt", args, "top_hottt", TopHotttKwargs(args))
        /\ UNCHANGED <<observing, heap>>

SimilarOver(A) ==
    \E args \in A :
        /\ Query("similar", args, "similar", SimilarKwargs(args))
        /\ UNCHANGED <<observing, heap>>

GetSimilarCalls ==
    {GetSimilarDefaults,
     [GetSimilarDefaults EXCEPT !.results = Num(5), !.start = Num(2),
                                !.max_familiarity = Num(1), !.limit = TRUE]}
SearchCalls ==
    {[SearchDefaults EXCEPT !.name = Str("the national")],
     [SearchDefaults EXCEPT !.name = Str("the national"), !.results = Num(5)]}
TopHotttCalls ==
    {TopHotttDefaults, [TopHotttDefaults EXCEPT !.start = Num(2), !.limit = TRUE]}
SimilarCalls ==
    {[SimilarDefaults EXCEPT !.ids = Str("AR1")],
     [SimilarDefaults EXCEPT !.names = List(<<Str("n1"), Str("n2")>>)]}

GetSimilar == GetSimilarOver(GetSimilarCalls)
Search == SearchOver(SearchCalls)
TopHottt == TopHotttOver(TopHotttCalls)
Similar == SimilarOver(SimilarCalls)

GetSimilarAny == GetSimilarOver(GetSimilarArgs)
SearchAny == SearchOver(SearchArgs)
TopHotttAny == TopHotttOver(TopHotttArgs)
SimilarAny == SimilarOver(SimilarArgs)

(***************************************************************************)
(* Object identity.  A dict object is a position of heap.dicts; two        *)
(* references share a dict when they are the same position.  heap.items    *)
(* are the raw dicts in the list under cache['similar'], heap.kids the     *)
(* Artists get_similar has returned so far, each with the reference of its *)
(* own cache, and heap.self tells whose method the latest call was: 0 for  *)
(* the Artist under test, i for heap.kids[i].                              *)
(***************************************************************************)
NoHeap == [dicts |-> <<>>, items |-> <<>>, kids |-> <<>>, self |-> 0]

\* self.cache['similar'] = response['artists']: the list of the response,
\* with the dict objects the decoder has just created, is kept as it is.
RECURSIVE StoreItems(_, _, _)
StoreItems(h, raw, i) ==
    IF i > Len(raw)
    THEN h
    ELSE StoreItems([h EXCEPT !.dicts = Append(@, raw[i].v),
                              !.items = Append(@, Len(h.dicts) + 1)],
                    raw, i + 1)

\* Artist(**kw): the new Artist has a new dict as its cache, holding the
\* fields of kw other than id and name.
NewArtistOn(h, kw) ==
    [h EXCEPT !.dicts = Append(@, NewArtist(kw).cache),
              !.kids = Append(@, [id |-> NewArtist(kw).id,
                                  name |-> NewArtist(kw).name,
                                  cache |-> Len(h.dicts) + 1])]

\* return [Artist(**fix(a)) for a in self.cache['similar']], when no item
\* raises: fix reads the raw dict a and gives its fields in a new dict.
RECURSIVE BuildArtists(_, _)
BuildArtists(h, i) ==
    IF i > Len(h.items)
    THEN h
    ELSE BuildArtists(NewArtistOn(h, Fix(h.dicts[h.items[i]]).result), i + 1)

\* Variant: the assignment reaches every dict there is.
StoreInEvery(dicts, ref, k, v) == [r \in DOMAIN dicts |-> Put(dicts[r], k, v)]

\* self.cache[k] = v, self.cache being the dict at ref.
StoreIn(dicts, ref, k, v) == [dicts EXCEPT ![ref] = Put(@, k, v)]

\* get_similar of the Artist under test, with the objects it creates.
SimilarOnHeap(h, call, items) ==
    IF call.gw = "fail"
    THEN [h EXCEPT !.self = 0]
    ELSE LET stored == IF call.gw = "ok"
                       THEN StoreItems([h EXCEPT !.items = <<>>], items, 1)
                       ELSE h
         IN IF call.raised # "none"
            THEN [stored EXCEPT !.self = 0]
            ELSE [BuildArtists(stored, 1) EXCEPT !.self = 0]

GetSimilarObjects ==
    \E args \in GetSimilarCalls, useCache \in BOOLEAN :
        /\ Accessor("get_similar", "similar", args, useCache,
                    "similar", GetSimilarKwargs(args),
                    {[response |-> r, value |-> r["artists"]] : r \in SimilarResponses},
                    "artists", "")
        /\ heap' = SimilarOnHeap(heap, last', cache'["similar"].v)
        /\ Len(heap'.kids) <= MaxKids
        /\ UNCHANGED observing

\* get_hotttnesss or get_familiarity of an Artist that get_similar returned:
\* the accessor of that Artist, on that Artist's cache.
KidScalar ==
    \E i \in DOMAIN heap.kids, attr \in {"hotttnesss", "familiarity"},
       useCache \in BOOLEAN :
        LET kid == heap.kids[i]
            mine == heap.dicts[kid.cache]
            op == IF attr = "hotttnesss" THEN "get_hotttnesss" ELSE "get_familiarity"
            req == [GetAttribute(attr, NoKwargs) EXCEPT !.entity = kid.id]
            Seen(gw, rq, resp, out) ==
                [Call(op, attr, NoArgs, useCache, gw, rq, resp, out)
                    EXCEPT !.found = attr \in DOMAIN mine]
        IN /\ UNCHANGED <<cache, okCached, observing>>
           /\ IF useCache /\ attr \in DOMAIN mine
              THEN /\ UNCHANGED gwCalls
                   /\ heap' = [heap EXCEPT !.self = i]
                   /\ last' = Seen("none", NoRequest, NoResponse, AdaptRaw(mine[attr]))
              ELSE /\ gwCalls < MaxCalls
                   /\ gwCalls' = CountCall(gwCalls)
                   /\ \/ /\ heap' = [heap EXCEPT !.self = i]
                         /\ last' = Seen("fail", req, NoResponse, Raised("gateway"))
                      \/ \E r \in ArtistResponses(attr) :
                           /\ heap' = [heap EXCEPT
                                         !.self = i,
                                         !.dicts = StoreIn(@, kid.cache, attr,
                                                           r["artist"][attr])]
                           /\ last' = Seen("ok", req, r,
                                           AdaptRaw(heap'.dicts[kid.cache][attr]))

(***************************************************************************)
(* The state machine.                                                      *)
(***************************************************************************)
NoCall ==
    [op |-> "none", key |-> "", args |-> NoArgs, cache |-> FALSE,
     found |-> FALSE, gw |-> "none",
     request |-> NoRequest, response |-> NoResponse,
     raised |-> "none", result |-> NoResult]

\* a = artist.Artist('ARH6W4X1187B99274F'): an Artist built from an id alone;
\* nothing has been fetched.
Fresh ==
    /\ heap = NoHeap
    /\ cache = EmptyMap
    /\ gwCalls = 0
    /\ okCached = {}
    /\ last = NoCall

Init == Fresh /\ observing = FALSE

Next ==
    \/ GetHotttnesss
    \/ GetAudio
    \/ GetBiographies
    \/ GetBlogs
    \/ GetFamiliarity
    \/ GetImages
    \/ GetNews
    \/ GetReviews
    \/ GetSimilar
    \/ GetUrls
    \/ GetVideo
    \/ GetForeignId
    \/ Search
    \/ TopHottt
    \/ Similar

Spec == Init /\ [][Next]_vars

\* One call of a request-building function on a fresh Artist.
QueryNext ==
    \/ last = NoCall /\ SearchAny
    \/ last = NoCall /\ TopHotttAny
    \/ last = NoCall /\ SimilarAny
    \/ last = NoCall /\ GetSimilarAny

QuerySpec == Init /\ [][QueryNext]_vars

\* The same run, with the caller recording which calls made with cache=True
\* have returned.
HistInit == Fresh /\ observing = TRUE

HistSpec == HistInit /\ [][Next]_vars

\* get_similar on the Artist under test and accessor calls on the Artists it
\* returns, with object identities.
ObjectsNext ==
    \/ GetSimilarObjects
    \/ KidScalar

ObjectsSpec == Init /\ [][ObjectsNext]_vars

(***************************************************************************)
(* Vocabulary of the properties.                                           *)
(***************************************************************************)
AccessorOps ==
    {"get_hotttnesss", "get_familiarity", "get_audio", "get_biographies",
     "get_blogs", "get_images", "get_news", "get_reviews", "get_similar",
     "get_urls", "get_video", "get_foreign_id"}
QueryOps == {"search", "top_hottt", "similar"}
IsAccessor(c) == c.op \in AccessorOps
IsQuery(c) == c.op \in QueryOps

\* The accessor that owns a cache key: get_<attr> for an attribute name,
\* get_foreign_id for any other key.
AccessorOf(k) ==
    CASE k = "hotttnesss"  -> "get_hotttnesss"
      [] k = "familiarity" -> "get_familiarity"
      [] k = "audio"       -> "get_audio"
      [] k = "biographies" -> "get_biographies"
      [] k = "blogs"       -> "get_blogs"
      [] k = "images"      -> "get_images"
      [] k = "news"        -> "get_news"
      [] k = "reviews"     -> "get_reviews"
      [] k = "similar"     -> "get_similar"
      [] k = "urls"        -> "get_urls"
      [] k = "video"       -> "get_video"
      [] OTHER             -> "get_foreign_id"

AttributeKeys ==
    {"hotttnesss", "familiarity", "audio", "biographies", "blogs", "images",
     "news", "reviews", "similar", "urls", "video"}
AllKeys == AttributeKeys \cup IdSpaces

\* The raw data a returned value carries: the raw value itself for a scalar,
\* the raw field mappings under the Result and Artist objects otherwise.
RawOfItem(x) ==
    IF "t" \in DOMAIN x
    THEN x
    ELSE IF x.type = "artist"
         THEN Dict(("id" :> x.id) @@ ("name" :> x.name) @@ x.cache)
         ELSE x.fields
DataOf(res) ==
    IF "t" \in DOMAIN res
    THEN IF res.t = "list"
         THEN List([i \in DOMAIN res.v |-> RawOfItem(res.v[i])])
         ELSE res
    ELSE RawOfItem(res)

\* The value the specification has the accessor extract from a response.
ExpectedValue(c) ==
    CASE c.op \in {"get_hotttnesss", "get_familiarity"} -> c.response["artist"][c.key]
      [] c.op = "get_similar" -> c.response["artists"]
      [] c.op = "get_foreign_id" ->
            IF c.key \in DOMAIN c.response["artist"]
            THEN c.response["artist"][c.key]
            ELSE None
      [] OTHER -> c.response[c.key]

\* The request parameter an argument travels under, and the value sent.
Flags == {"limit", "exact", "sounds_like"}
ParamName(f) ==
    CASE f = "buckets" -> "bucket"
      [] f = "ids"     -> "id"
      [] f = "names"   -> "name"
      [] OTHER         -> f
Falsy == {None, Num(0), Str(""), List(<<>>), Dict(EmptyMap)}

\* The kind label each list-valued accessor gives its Results.
ListKinds ==
    [get_audio |-> "audio", get_biographies |-> "biography",
     get_blogs |-> "blogs", get_images |-> "image", get_news |-> "news",
     get_reviews |-> "review", get_video |-> "video"]

\* The call c has handed back the data of the cached value v: v itself, or,
\* where the accessor builds one object per item of v, the items v gives
\* when it is iterated, in that order.
Serves(c, v) ==
    IF c.op \in DOMAIN ListKinds \cup {"get_similar"}
    THEN Iterable(v) /\ \E s \in Items(v) : DataOf(c.result) = List(s)
    ELSE DataOf(c.result) = v

(***************************************************************************)
(* C1.  Once a call of an accessor with cache=True has returned, every     *)
(* later call of that accessor with cache=True makes no gateway call and   *)
(* returns data equal to the cached value.                                 *)
(***************************************************************************)
C1_CachedCallServedFromCache ==
    [][ (last'.cache /\ <<last'.op, last'.key>> \in okCached)
        => /\ gwCalls' = gwCalls
           /\ last'.raised = "none"
           /\ DataOf(last'.result) = cache[last'.key] ]_vars

(***************************************************************************)
(* C2.  An accessor call with cache=False makes a gateway call even when   *)
(* its key is cached; when the gateway succeeds, the cache entry is the    *)
(* value extracted from the new response and the call returns it.          *)
(***************************************************************************)
C2_NoCacheAlwaysRefetches ==
    [][ (IsAccessor(last') /\ ~last'.cache)
        => /\ gwCalls' = gwCalls + 1
           /\ last'.gw \in {"ok", "fail"}
           /\ last'.request # NoRequest
           /\ last'.gw = "ok" =>
                /\ last'.key \in DOMAIN cache'
                /\ cache'[last'.key] = ExpectedValue(last')
                /\ last'.raised = "none"
                /\ DataOf(last'.result) = ExpectedValue(last') ]_vars

\* A forced refetch of audio that found audio cached and succeeded.
C2_Witness ==
    /\ last.op = "get_audio" /\ ~last.cache /\ last.found /\ last.gw = "ok"
    /\ cache["audio"] = last.response["audio"]

(***************************************************************************)
(* C3.  A failing gateway call raises to the caller and leaves the cache   *)
(* exactly as it was; the next cache=True call of the same accessor, when  *)
(* its key was cached, makes no gateway call, returns, and returns the     *)
(* data of the kept value.                                                 *)
(***************************************************************************)
C3_FailureLeavesCache ==
    [][ /\ last'.gw = "fail" =>
            /\ last'.raised = "gateway"
            /\ last'.result = NoResult
            /\ cache' = cache
        /\ ( /\ last.gw = "fail" /\ IsAccessor(last) /\ last.found
             /\ last'.op = last.op /\ last'.key = last.key /\ last'.cache )
           => /\ gwCalls' = gwCalls
              /\ last'.gw = "none"
              /\ cache' = cache
              /\ last'.raised = "none"
              /\ Serves(last', cache[last.key]) ]_vars

(***************************************************************************)
(* C4.  Original statement: cache[attr] exists if and only if the accessor *)
(* of attr has been called with caching enabled and its remote call        *)
(* succeeded.  Step form: an entry comes to exist only in such a call, and *)
(* every such call leaves the entry present.                               *)
(***************************************************************************)
C4_EntryIffCachedFetch ==
    [][ \A k \in AllKeys :
          /\ (k \notin DOMAIN cache /\ k \in DOMAIN cache')
                => (last'.op = AccessorOf(k) /\ last'.cache /\ last'.gw = "ok")
          /\ (last'.op = AccessorOf(k) /\ last'.key = k /\ last'.cache
                /\ last'.gw = "ok")
                => k \in DOMAIN cache' ]_vars

(***************************************************************************)
(* C4, amended.  On an Artist built from an id alone, cache[k] exists if   *)
(* and only if some accessor call whose cache key is k (the accessor of    *)
(* attribute k, or get_foreign_id with idspace k), made with cache=True or *)
(* cache=False, has had its remote call succeed: the key set grows by      *)
(* exactly the key of each successful remote call and never shrinks.       *)
(***************************************************************************)
C4_EntryIffFetched ==
    [][ DOMAIN cache' =
          DOMAIN cache \cup
            (IF IsAccessor(last') /\ last'.gw = "ok" THEN {last'.key} ELSE {}) ]_vars

\* An entry that only a cache=False call has created.
C4_Witness ==
    /\ last.op = "get_audio" /\ ~last.cache /\ ~last.found /\ last.gw = "ok"
    /\ "audio" \in DOMAIN cache

(***************************************************************************)
(* C5.  get_foreign_id: when the profile response lacks the namespace, the *)
(* call returns None without raising and stores None under the idspace;    *)
(* while that None is cached, get_foreign_id(idspace, cache=True) is a hit *)
(* that returns None and makes no gateway call.                            *)
(***************************************************************************)
C5_AbsentForeignIdIsCached ==
    [][ /\ ( /\ last'.op = "get_foreign_id" /\ last'.gw = "ok"
             /\ last'.key \notin DOMAIN last'.response["artist"] )
           => /\ last'.raised = "none"
              /\ last'.result = None
              /\ last'.key \in DOMAIN cache'
              /\ cache'[last'.key] = None
        /\ ( /\ last'.op = "get_foreign_id" /\ last'.cache
             /\ last'.key \in DOMAIN cache
             /\ cache[last'.key] = None )
           => /\ gwCalls' = gwCalls
              /\ last'.gw = "none"
              /\ last'.raised = "none"
              /\ last'.result = None
              /\ cache' = cache ]_vars

\* A hit on a cached absence.
C5_Witness ==
    /\ last.op = "get_foreign_id" /\ last.key = "musicbrainz"
    /\ last.cache /\ last.found /\ last.gw = "none"
    /\ last.result = None
    /\ cache["musicbrainz"] = None

(***************************************************************************)
(* C6.  Every call makes at most one gateway call: none on a cache hit,    *)
(* exactly one on a miss or with cache=False, exactly one for every call   *)
(* of search, top_hottt and similar.                                       *)
(***************************************************************************)
C6_AtMostOneGatewayCall ==
    [][ /\ gwCalls' - gwCalls =
             IF IsAccessor(last') /\ last'.cache /\ last'.key \in DOMAIN cache
             THEN 0 ELSE 1
        /\ (last'.request = NoRequest) <=> (gwCalls' = gwCalls) ]_vars

\* A query function answered as the second remote call of the run.
C6_Witness ==
    /\ last.op = "search" /\ last.gw = "ok" /\ last.request # NoRequest
    /\ gwCalls = 2

(***************************************************************************)
(* C7.  A call that reaches the gateway names its attribute and carries    *)
(* every argument the caller passed: results, start, the license of        *)
(* get_biographies and get_images, the constraints of get_similar.         *)
(***************************************************************************)
C7_RequestCarriesArguments ==
    (IsAccessor(last) /\ last.op # "get_foreign_id" /\ last.gw # "none")
    => /\ last.request.path = <<"artist", last.key>>
       /\ \A f \in DOMAIN last.args :
            (f \in {"results", "start", "license"}
               \/ (f \notin Flags /\ last.args[f] # None)
               \/ (f \in Flags /\ last.args[f]))
            => /\ ParamName(f) \in DOMAIN last.request.params
               /\ f \notin Flags =>
                    last.request.params[ParamName(f)] = last.args[f]

(***************************************************************************)
(* C8.  Original statement: search sends a key exactly when the caller     *)
(* supplied that argument with a non-default, non-empty value.             *)
(***************************************************************************)
C8_OnlySuppliedArguments ==
    (last.op = "search")
    => \A f \in DOMAIN last.args :
         (ParamName(f) \in DOMAIN last.request.params)
         <=> IF f \in Flags
             THEN last.args[f]
             ELSE /\ last.args[f] # SearchDefaults[f]
                  /\ last.args[f] \notin {None, Str(""), List(<<>>)}

(***************************************************************************)
(* C8, amended.  search sends a key exactly when the argument's value,     *)
(* supplied or default, is truthy (not None, False, 0, '' or []), with the *)
(* value unchanged ('true' for a flag): results defaults to 15, so a call  *)
(* that supplies only name sends name and results=15.                      *)
(***************************************************************************)
C8_OnlyTruthyArguments ==
    (last.op = "search")
    => /\ \A f \in DOMAIN last.args :
            /\ (ParamName(f) \in DOMAIN last.request.params)
               <=> IF f \in Flags THEN last.args[f] ELSE last.args[f] \notin Falsy
            /\ (ParamName(f) \in DOMAIN last.request.params /\ f \notin Flags)
               => last.request.params[ParamName(f)] = last.args[f]
       /\ DOMAIN last.request.params \subseteq {ParamName(f) : f \in DOMAIN last.args}

\* search(name='the national') has sent name and results=15.
C8_Witness ==
    /\ last.op = "search"
    /\ last.args = [SearchDefaults EXCEPT !.name = Str("the national")]
    /\ last.request.params =
         ("name" :> Str("the national")) @@ ("results" :> Num(15))

(***************************************************************************)
(* C9.  In search, top_hottt, similar and get_similar a flag (limit,       *)
(* exact, sounds_like) is in the request exactly when it is true, and then *)
(* as the string 'true'; the value 'false' is never sent.                  *)
(***************************************************************************)
C9_FlagsOnlyWhenTrue ==
    (last.op \in QueryOps \cup {"get_similar"} /\ last.gw # "none")
    => /\ \A f \in Flags :
            /\ (f \in DOMAIN last.request.params)
               <=> (f \in DOMAIN last.args /\ last.args[f])
            /\ (f \in DOMAIN last.request.params)
               => last.request.params[f] = Str("true")
       /\ \A p \in DOMAIN last.request.params :
            last.request.params[p] # Str("false")

\* search(sounds_like=True) has sent sounds_like='true' and no exact.
C9_Witness ==
    /\ last.op = "search" /\ last.args.sounds_like /\ ~last.args.exact
    /\ "sounds_like" \in DOMAIN last.request.params
    /\ last.request.params["sounds_like"] = Str("true")
    /\ "exact" \notin DOMAIN last.request.params

(***************************************************************************)
(* C10.  similar(ids=x) sends what similar(ids=[x]) sends, for a non-empty *)
(* scalar x, and likewise for names; a list is sent as given, in order.    *)
(***************************************************************************)
C10_ScalarSentAsSingleton ==
    (last.op = "similar")
    => /\ \A f \in {"ids", "names"} :
            LET x == last.args[f]
            IN /\ (x.t = "str" /\ x.v # "")
                  => /\ last.request.params[ParamName(f)] = List(<<x>>)
                     /\ last.request.params =
                          SimilarKwargs([last.args EXCEPT ![f] = List(<<x>>)])
               /\ (x.t = "list" /\ x.v # <<>>)
                  => last.request.params[ParamName(f)] = x

\* similar(ids='AR1') has sent id=['AR1'].
C10_Witness ==
    /\ last.op = "similar" /\ last.args.ids = Str("AR1")
    /\ last.request.params["id"] = List(<<Str("AR1")>>)

(***************************************************************************)
(* C11.  In search, similar and get_similar the filters max_familiarity,   *)
(* min_familiarity, max_hotttnesss, min_hotttnesss and the bucket list are *)
(* in the request exactly when their value is truthy: None, 0 and the      *)
(* empty list are all omitted; a filter that is sent carries the caller's  *)
(* value unchanged, the max and the min together when both are given.      *)
(***************************************************************************)
C11_FiltersOnlyWhenTruthy ==
    (last.op \in {"search", "similar", "get_similar"} /\ last.gw # "none")
    => \A f \in {"max_familiarity", "min_familiarity", "max_hotttnesss",
                 "min_hotttnesss", "buckets"} :
         IF last.args[f] \in Falsy
         THEN ParamName(f) \notin DOMAIN last.request.params
         ELSE /\ ParamName(f) \in DOMAIN last.request.params
              /\ last.request.params[ParamName(f)] = last.args[f]

\* similar(min_familiarity=0, max_familiarity=1) has sent max_familiarity=1
\* and no min_familiarity.
C11_Witness ==
    /\ last.op = "similar" /\ last.gw # "none"
    /\ last.args.min_familiarity = Num(0) /\ last.args.max_familiarity = Num(1)
    /\ "min_familiarity" \notin DOMAIN last.request.params
    /\ last.request.params["max_familiarity"] = Num(1)

(***************************************************************************)
(* C12.  hotttnesss and familiarity have distinct cache keys.  With one of *)
(* the two cached and the other not, the accessor of the other makes its   *)
(* own gateway call for its own attribute, with no parameters, stores the  *)
(* value under response["artist"][attr] in its own key and returns it, and *)
(* leaves the entry of the first as it was.  get_hotttnesss never sends a  *)
(* parameter, and returns exactly the value it extracted.                  *)
(***************************************************************************)
C12_ScalarKeysDistinct ==
    [][ /\ \A p \in {<<"hotttnesss", "familiarity">>, <<"familiarity", "hotttnesss">>} :
            ( /\ last'.op = AccessorOf(p[2])
              /\ p[1] \in DOMAIN cache /\ p[2] \notin DOMAIN cache )
            => /\ gwCalls' = gwCalls + 1
               /\ last'.request =
                    [path |-> <<"artist", p[2]>>, entity |-> ArtistId,
                     params |-> EmptyMap]
               /\ p[1] \in DOMAIN cache' /\ cache'[p[1]] = cache[p[1]]
               /\ last'.gw = "ok" =>
                    /\ p[2] \in DOMAIN cache'
                    /\ cache'[p[2]] = last'.response["artist"][p[2]]
                    /\ last'.raised = "none"
                    /\ last'.result = last'.response["artist"][p[2]]
        /\ (last'.op = "get_hotttnesss" /\ last'.gw # "none")
            => /\ last'.request.path = <<"artist", "hotttnesss">>
               /\ last'.request.params = EmptyMap
               /\ last'.gw = "ok" =>
                    last'.result = last'.response["artist"]["hotttnesss"] ]_vars

\* get_familiarity() fetched familiarity on an Artist that had hotttnesss
\* cached by get_hotttnesss.
C12_Witness ==
    /\ last.op = "get_familiarity" /\ last.cache /\ ~last.found /\ last.gw = "ok"
    /\ "hotttnesss" \in DOMAIN cache /\ cache["hotttnesss"].t = "num"
    /\ cache["familiarity"] = last.response["artist"]["familiarity"]

(***************************************************************************)
(* C13.  search, top_hottt and similar return one Artist per item of       *)
(* response["response"]["artists"], in the same order, the i-th Artist     *)
(* built from the raw fields of the i-th item (its id, its name, and the   *)
(* remaining fields); an empty list gives an empty result.                 *)
(***************************************************************************)
C13_OneArtistPerItem ==
    (IsQuery(last) /\ last.gw = "ok")
    => LET items == last.response["response"]["artists"].v
           got == last.result
       IN /\ last.raised = "none"
          /\ got.t = "list"
          /\ Len(got.v) = Len(items)
          /\ \A i \in 1..Len(items) :
                /\ got.v[i].type = "artist"
                /\ got.v[i].id = items[i].v["id"]
                /\ got.v[i].name = items[i].v["name"]
                /\ got.v[i].cache =
                     [k \in DOMAIN items[i].v \ {"id", "name"} |-> items[i].v[k]]
          /\ items = <<>> => got = List(<<>>)

\* similar(...) answered with two items has returned the two Artists in the
\* order of the response.
C13_Witness ==
    /\ last.op = "similar" /\ last.gw = "ok"
    /\ Len(last.response["response"]["artists"].v) = 2
    /\ Len(last.result.v) = 2
    /\ last.result.v[1].id = last.response["response"]["artists"].v[1].v["id"]
    /\ last.result.v[1].id # last.result.v[2].id

(***************************************************************************)
(* C14.  The set of keys of the cache never shrinks: whatever the call (a  *)
(* hit, a miss, a forced refetch, a failure, a query function), every key  *)
(* present before it is present after it.                                  *)
(***************************************************************************)
C14_KeysNeverShrink ==
    [][ DOMAIN cache \subseteq DOMAIN cache' ]_vars

\* A forced get_foreign_id refetch failed with the entry of an earlier call
\* still in the cache.
C14_Witness ==
    /\ last.op = "get_foreign_id" /\ last.key = "musicbrainz"
    /\ ~last.cache /\ last.found /\ last.gw = "fail"
    /\ "musicbrainz" \in DOMAIN cache

(***************************************************************************)
(* C15.  An accessor call changes at most the cache entry under its own    *)
(* key (the attribute name, or the idspace for get_foreign_id): no other   *)
(* key is added, every other entry keeps its value, the request is made    *)
(* for the same Artist id, and a cache hit leaves the cache as it was.     *)
(***************************************************************************)
C15_OnlyOwnEntryChanges ==
    [][ IsAccessor(last')
        => /\ DOMAIN cache' \subseteq DOMAIN cache \cup {last'.key}
           /\ \A k \in DOMAIN cache \ {last'.key} :
                k \in DOMAIN cache' /\ cache'[k] = cache[k]
           /\ last'.gw # "none" => last'.request.entity = ArtistId
           /\ last'.gw = "none" => cache' = cache ]_vars

\* get_urls fetched urls into a cache that already held another entry.
C15_Witness ==
    /\ last.op = "get_urls" /\ last.gw = "ok" /\ ~last.found
    /\ Cardinality(DOMAIN cache) = 2
    /\ cache["urls"] = last.response["urls"]

(***************************************************************************)
(* C16.  For audio, biographies, blogs, images, news, reviews and video,   *)
(* every call that is not a gateway failure, hit or miss, returns one      *)
(* Result per item of the cached raw list, in the same order, labelled     *)
(* with the attribute's kind, and leaves the cached raw list a list.       *)
(***************************************************************************)
C16_OneResultPerCachedItem ==
    (last.op \in DOMAIN ListKinds /\ last.gw # "fail")
    => /\ last.raised = "none"
       /\ last.key \in DOMAIN cache
       /\ cache[last.key].t = "list"
       /\ last.result =
            List([i \in DOMAIN cache[last.key].v |->
                    [type |-> ListKinds[last.op],
                     fields |-> cache[last.key].v[i]]])

(***************************************************************************)
(* C18.  The entry under an attribute name is written only by the accessor *)
(* of that attribute: a step that creates or changes cache[A] is a call of *)
(* A's accessor, and the entry is then the value extracted from that       *)
(* call's response.                                                        *)
(***************************************************************************)
C18_OnlyOwnAccessorWrites ==
    [][ \A k \in AttributeKeys :
          ( /\ k \in DOMAIN cache'
            /\ (k \notin DOMAIN cache \/ cache'[k] # cache[k]) )
          => /\ last'.op = AccessorOf(k)
             /\ last'.gw = "ok"
             /\ cache'[k] = ExpectedValue(last') ]_vars

(***************************************************************************)
(* C17.  get_similar returns, on every call, new Artists built from copies *)
(* of the raw dicts in cache['similar'].  After every call: no two         *)
(* returned Artists, of this call or of an earlier one, have the same dict *)
(* as their cache, and none has a raw dict of cache['similar'] as its      *)
(* cache; cache['similar'] still holds the raw dicts as the gateway gave   *)
(* them.  A get_similar call that does not fail returns one new Artist per *)
(* raw dict, each with a dict created by this call, holding the raw fields *)
(* other than id and name, and leaves the Artists returned earlier as they *)
(* were; on a hit it changes no dict that existed and not the cache.  An   *)
(* accessor call on a returned Artist changes no dict but that Artist's    *)
(* own cache, and not the cache of the Artist that returned it.            *)
(***************************************************************************)
C17_SimilarArtistsOwnTheirCache ==
    [][ LET h == heap
            g == heap'
            born == Len(g.kids) - Len(h.kids)
        IN /\ \A i, j \in DOMAIN g.kids :
                i # j => g.kids[i].cache # g.kids[j].cache
           /\ \A i \in DOMAIN g.kids, j \in DOMAIN g.items :
                g.kids[i].cache # g.items[j]
           /\ "similar" \in DOMAIN cache' =>
                cache'["similar"] =
                  List([i \in DOMAIN g.items |-> Dict(g.dicts[g.items[i]])])
           /\ (g.self = 0 /\ last'.gw # "fail") =>
                /\ born = Len(g.items)
                /\ Len(last'.result.v) = born
                /\ \A n \in 1..born :
                     LET kid == g.kids[Len(h.kids) + n]
                         raw == g.dicts[g.items[n]]
                     IN /\ kid.cache > Len(h.dicts)
                        /\ kid.id = raw["id"]
                        /\ g.dicts[kid.cache] =
                             [k \in DOMAIN raw \ {"id", "name"} |-> raw[k]]
                        /\ last'.result.v[n].cache = g.dicts[kid.cache]
                /\ \A i \in DOMAIN h.kids :
                     /\ g.kids[i] = h.kids[i]
                     /\ g.dicts[h.kids[i].cache] = h.dicts[h.kids[i].cache]
                /\ last'.gw = "none" =>
                     /\ cache' = cache
                     /\ \A r \in DOMAIN h.dicts : g.dicts[r] = h.dicts[r]
           /\ g.self > 0 =>
                /\ cache' = cache
                /\ g.items = h.items
                /\ g.kids = h.kids
                /\ DOMAIN g.dicts = DOMAIN h.dicts
                /\ \A r \in DOMAIN h.dicts \ {h.kids[g.self].cache} :
                     g.dicts[r] = h.dicts[r] ]_vars

\* Two get_similar calls have returned two Artists each, and one of the
\* Artists has fetched its hotttnesss into its own cache: the raw dicts
\* under cache['similar'] have no hotttnesss.
C17_Witness ==
    /\ Len(heap.kids) = 4 /\ Len(heap.items) = 2
    /\ heap.self > 0 /\ last.op = "get_hotttnesss" /\ last.gw = "ok"
    /\ "hotttnesss" \in DOMAIN heap.dicts[heap.kids[heap.self].cache]
    /\ \A j \in DOMAIN heap.items : "hotttnesss" \notin DOMAIN heap.dicts[heap.items[j]]
    /\ \A i \in DOMAIN heap.kids :
         i # heap.self => "hotttnesss" \notin DOMAIN heap.dicts[heap.kids[i].cache]

====
